---- MODULE Spec2Model ----
(***************************************************************************)
(* Model of pkg/cmd/secret/list/list.go: the `secret list` command.        *)
(*                                                                         *)
(* listRun is a straight-line procedure with four collaborator calls       *)
(* (HttpClient, BaseRepo, client.REST, TablePrinter).  The model keeps its *)
(* position in pc and one action per stage.  Every collaborator call is    *)
(* appended to `calls`, every REST request to `requests`.                  *)
(*                                                                         *)
(* Representation:                                                         *)
(*   - Go strings are TLA+ strings, joined with \o (fmt.Sprintf);          *)
(*     Secret.Visibility is a sequence of one-character strings, so that   *)
(*     strings.ToUpper is computed character by character;                 *)
(*   - a Go error is the sequence of the messages of its Unwrap chain,     *)
(*     outermost first; nil is the empty sequence;                         *)
(*   - time.Time is a [year, month, day] record.                           *)
(***************************************************************************)
EXTENDS Integers, Sequences, FiniteSets, TLC

VARIABLES
    OrgName,      \* opts.OrgName, the --org flag
    isTTY,        \* opts.IO.IsStdoutTTY()
    ghHost,       \* host override read by ghinstance.OverridableDefault ("" = unset)
    httpResult,   \* error opts.HttpClient() returns (Nil = a client)
    repoResult,   \* what opts.BaseRepo() returns when called: [repo, err]
    pc,           \* position in listRun
    baseRepo,     \* local baseRepo (NilRepo until assigned)
    secrets,      \* local secrets
    idx,          \* position of the range loop over secrets
    tp,           \* the table printer: [rows, cur]
    out,          \* what Render wrote to opts.IO.Out
    ret,          \* listRun's return value
    cause,        \* the error the failing collaborator returned
    calls,        \* collaborator calls, in order
    requests      \* REST requests issued, in order

vars == <<OrgName, isTTY, ghHost, httpResult, repoResult, pc, baseRepo, secrets,
          idx, tp, out, ret, cause, calls, requests>>

inputs == <<OrgName, isTTY, ghHost, httpResult, repoResult>>

-----------------------------------------------------------------------------
(* Bounds and input sets *)

MaxSecrets == 2

Nil == <<>>

\* the nil ghrepo.Interface
NilRepo == [host |-> "", owner |-> "", name |-> ""]

\* the repositories the accessor can return: any ghrepo.Interface, listRun
\* validates none of its fields
Repos == [host : {"github.com", "ghe.io"}, owner : {"", "octo", "hubot"},
          name : {"cl", "hello-world"}]

OrgNames == {"", "@owner", "acme", "my-org"}

HttpErrors == {<<"no token">>}

RepoErrors == {<<"not a git repository">>}

RestErrors == {<<"HTTP 404">>, <<"invalid character">>}

WriteErrors == {<<"write: broken pipe">>}

VisAll == <<"a", "l", "l">>

VisPrivate == <<"p", "r", "i", "v", "a", "t", "e">>

VisSelected == <<"s", "e", "l", "e", "c", "t", "e", "d">>

SecretPool ==
    { [Name |-> "FOO", UpdatedAt |-> [year |-> 2024, month |-> 1, day |-> 15],
       Visibility |-> <<>>],
      [Name |-> "BAR", UpdatedAt |-> [year |-> 2021, month |-> 12, day |-> 3],
       Visibility |-> VisAll],
      [Name |-> "BAZ", UpdatedAt |-> [year |-> 987, month |-> 10, day |-> 31],
       Visibility |-> VisPrivate],
      [Name |-> "QUX", UpdatedAt |-> [year |-> 2024, month |-> 1, day |-> 15],
       Visibility |-> VisSelected],
      [Name |-> "ABC", UpdatedAt |-> [year |-> 2020, month |-> 2, day |-> 29],
       Visibility |-> <<"A", "l", "l">>],
      [Name |-> "ZED", UpdatedAt |-> [year |-> 2019, month |-> 7, day |-> 4],
       Visibility |-> <<"x", "-", "1">>] }

Payloads == UNION { [1..n -> SecretPool] : n \in 0..MaxSecrets }

-----------------------------------------------------------------------------
(* Library functions *)

\* fmt.Errorf(prefix + "%w", err): the message is prefixed, err stays the cause.
Errorf(prefix, err) == <<prefix \o Head(err)>> \o err

Digit(d) == <<"0", "1", "2", "3", "4", "5", "6", "7", "8", "9">>[d + 1]

Pad2(n) == Digit((n \div 10) % 10) \o Digit(n % 10)

Pad4(n) == Pad2(n \div 100) \o Pad2(n % 100)

\* time.Time.Format("2006-01-02")
FormatDate(t) == Pad4(t.year) \o "-" \o Pad2(t.month) \o "-" \o Pad2(t.day)

Lower == <<"a", "b", "c", "d", "e", "f", "g", "h", "i", "j", "k", "l", "m",
           "n", "o", "p", "q", "r", "s", "t", "u", "v", "w", "x", "y", "z">>

Upper == <<"A", "B", "C", "D", "E", "F", "G", "H", "I", "J", "K", "L", "M",
           "N", "O", "P", "Q", "R", "S", "T", "U", "V", "W", "X", "Y", "Z">>

UpperChar(c) ==
    IF \E k \in DOMAIN Lower : Lower[k] = c
    THEN Upper[CHOOSE k \in DOMAIN Lower : Lower[k] = c]
    ELSE c

RECURSIVE ToUpper(_)
\* strings.ToUpper, returned as a string
ToUpper(s) == IF s = <<>> THEN "" ELSE UpperChar(Head(s)) \o ToUpper(Tail(s))

\* ghinstance.OverridableDefault()
OverridableDefault == IF ghHost # "" THEN ghHost ELSE "github.com"

\* ghrepo.FullName(repo)
FullName(repo) == repo.owner \o "/" \o repo.name

\* utils.TablePrinter
NewTablePrinter == [rows |-> <<>>, cur |-> <<>>]

AddField(t, v) == [t EXCEPT !.cur = Append(@, v)]

EndRow(t) == [rows |-> Append(t.rows, t.cur), cur |-> <<>>]

RECURSIVE AddFields(_, _)
AddFields(t, fs) == IF fs = <<>> THEN t ELSE AddFields(AddField(t, Head(fs)), Tail(fs))

\* tp.Render(): writes and flushes the table; it fails when the write fails
RenderErr(t, werr) == werr

-----------------------------------------------------------------------------
(* Functions of list.go *)

\* mutant: the switch compares the tag without regard to case
fmtVisibility_IgnoreCase(s) ==
    CASE ToUpper(s.Visibility) = "ALL" -> "Visible to all repositories"
      [] ToUpper(s.Visibility) = "PRIVATE" -> "Visible to private repositories"
      [] ToUpper(s.Visibility) = "SELECTED" -> "Visible to selected repositories"
      [] OTHER -> ""

fmtVisibility(s) ==
    CASE s.Visibility = VisAll -> "Visible to all repositories"
      [] s.Visibility = VisPrivate -> "Visible to private repositories"
      [] s.Visibility = VisSelected -> "Visible to selected repositories"
      [] OTHER -> ""

\* the request client.REST receives from getSecrets
getSecrets(host, path) == [host |-> host, method |-> "GET", path |-> path]

getOrgSecrets(host, orgName) ==
    getSecrets(host, "orgs/" \o orgName \o "/actions/secrets")

\* mutant: the repository request goes to the default host
getRepoSecrets_DefaultHost(repo) ==
    getSecrets(OverridableDefault, "repos/" \o FullName(repo) \o "/actions/secrets")

getRepoSecrets(repo) ==
    getSecrets(repo.host, "repos/" \o FullName(repo) \o "/actions/secrets")

\* mutant: the accessor is called whatever --org is
NeedsBaseRepo_Always(org) == TRUE

\* listRun, line 64: is the repository accessor needed?
NeedsBaseRepo(org) == org = "" \/ org = "@owner"

\* listRun, lines 71-76: the organization name the request is made for
EffectiveOrg(org, repo) == IF org = "@owner" THEN repo.owner ELSE org

\* mutant: the host is taken from the repository for every organization
EffectiveHost_FromRepo(org, repo) == repo.host

\* listRun, lines 72-76: the host of an organization request
EffectiveHost(org, repo) == IF org = "@owner" THEN repo.host ELSE OverridableDefault

\* mutant: the request is issued a second time
FetchRequests_Twice(org, repo) ==
    IF EffectiveOrg(org, repo) # ""
    THEN <<getOrgSecrets(EffectiveHost(org, repo), EffectiveOrg(org, repo)),
           getOrgSecrets(EffectiveHost(org, repo), EffectiveOrg(org, repo))>>
    ELSE <<getRepoSecrets(repo), getRepoSecrets(repo)>>

\* listRun, lines 78-83: the request issued
FetchRequests(org, repo) ==
    IF EffectiveOrg(org, repo) # ""
    THEN <<getOrgSecrets(EffectiveHost(org, repo), EffectiveOrg(org, repo))>>
    ELSE <<getRepoSecrets(repo)>>

\* listRun, lines 92-96: the date column
UpdatedAtField(s, tty) ==
    IF tty THEN "Updated " \o FormatDate(s.UpdatedAt) ELSE FormatDate(s.UpdatedAt)

\* mutant: the visibility column is added for every secret
VisibilityFields_Always(s, tty) ==
    IF tty THEN <<fmtVisibility(s)>> ELSE <<ToUpper(s.Visibility)>>

\* listRun, lines 97-103: the visibility column, when there is one
VisibilityFields(s, tty) ==
    IF s.Visibility # <<>>
    THEN IF tty THEN <<fmtVisibility(s)>> ELSE <<ToUpper(s.Visibility)>>
    ELSE <<>>

\* mutant: secrets without visibility get no row
AddRow_SkipsEmptyVisibility(t, s, tty) ==
    IF s.Visibility = <<>>
    THEN t
    ELSE EndRow(AddFields(t, <<s.Name, UpdatedAtField(s, tty)>>
                             \o VisibilityFields(s, tty)))

\* listRun, lines 91-104: one iteration of the loop
AddRow(t, s, tty) ==
    EndRow(AddFields(t, <<s.Name, UpdatedAtField(s, tty)>> \o VisibilityFields(s, tty)))

\* the collaborator calls of one iteration
RowCalls(s, tty) ==
    [k \in 1..(2 + Len(VisibilityFields(s, tty))) |-> "AddField"] \o <<"EndRow">>

\* listRun, lines 58-60, 66-68, 85-87: the wrapped errors
ClientError(err) == Errorf("could not create http client: ", err)

RepoError(err) == Errorf("could not determine base repo: ", err)

\* mutant: the fetch error is returned as it came
FetchError_Unwrapped(err) == err

FetchError(err) == Errorf("failed to get secrets: ", err)

\* listRun, lines 107-110
RenderError(err) == err

\* where listRun goes after a stage that returned err
AfterClient(err) == IF err # Nil THEN "done" ELSE "resolve"

AfterResolve(err) == IF err # Nil THEN "done" ELSE "fetch"

\* mutant: the fetch error is not checked before rendering
AfterFetch_Continue(err) == "rows"

AfterFetch(err) == IF err # Nil THEN "done" ELSE "rows"

-----------------------------------------------------------------------------
(* State machine *)

Init ==
    /\ OrgName \in OrgNames
    /\ isTTY \in BOOLEAN
    /\ ghHost \in {"", "ghe.io"}
    /\ httpResult \in {Nil} \cup HttpErrors
    /\ repoResult \in [repo : Repos \cup {NilRepo}, err : {Nil}]
                      \cup [repo : {NilRepo}, err : RepoErrors]
    /\ pc = "client"
    /\ baseRepo = NilRepo
    /\ secrets = <<>>
    /\ idx = 1
    /\ tp = NewTablePrinter
    /\ out = <<>>
    /\ ret = Nil
    /\ cause = Nil
    /\ calls = <<>>
    /\ requests = <<>>

\* lines 57-61
CreateClient ==
    /\ pc = "client"
    /\ calls' = Append(calls, "HttpClient")
    /\ cause' = httpResult
    /\ ret' = IF httpResult # Nil THEN ClientError(httpResult) ELSE Nil
    /\ pc' = AfterClient(httpResult)
    /\ UNCHANGED <<inputs, baseRepo, secrets, idx, tp, out, requests>>

\* lines 63-69
ResolveRepo ==
    /\ pc = "resolve"
    /\ IF NeedsBaseRepo(OrgName)
       THEN /\ calls' = Append(calls, "BaseRepo")
            /\ baseRepo' = repoResult.repo
            /\ cause' = repoResult.err
            /\ ret' = IF repoResult.err # Nil THEN RepoError(repoResult.err) ELSE Nil
            /\ pc' = AfterResolve(repoResult.err)
       ELSE /\ pc' = AfterResolve(Nil)
            /\ UNCHANGED <<calls, baseRepo, cause, ret>>
    /\ UNCHANGED <<inputs, secrets, idx, tp, out, requests>>

\* lines 71-89: the request, the service's answer, the new table printer
Fetch ==
    /\ pc = "fetch"
    /\ ~(NeedsBaseRepo(OrgName) /\ baseRepo = NilRepo)
    /\ requests' = requests \o FetchRequests(OrgName, baseRepo)
    /\ calls' = calls \o [k \in 1..Len(FetchRequests(OrgName, baseRepo)) |-> "REST"]
    /\ \E err \in {Nil} \cup RestErrors :
       \E payload \in (IF err = Nil THEN Payloads ELSE {<<>>}) :
          /\ secrets' = payload
          /\ cause' = err
          /\ ret' = IF err # Nil THEN FetchError(err) ELSE Nil
          /\ pc' = AfterFetch(err)
    /\ idx' = 1
    /\ tp' = NewTablePrinter
    /\ UNCHANGED <<inputs, baseRepo, out>>

\* lines 74 and 139: the accessor returned (nil, nil); RepoOwner (line 74) or
\* RepoHost (line 139) is called on the nil interface and listRun panics
\* before any request is made
NilRepoPanic ==
    /\ pc = "fetch"
    /\ NeedsBaseRepo(OrgName)
    /\ baseRepo = NilRepo
    /\ pc' = "panic"
    /\ UNCHANGED <<inputs, baseRepo, secrets, idx, tp, out, ret, cause, calls,
                   requests>>

\* lines 90-105: one iteration of the range loop
Row ==
    /\ pc = "rows"
    /\ idx <= Len(secrets)
    /\ tp' = AddRow(tp, secrets[idx], isTTY)
    /\ calls' = calls \o RowCalls(secrets[idx], isTTY)
    /\ idx' = idx + 1
    /\ UNCHANGED <<inputs, pc, baseRepo, secrets, out, ret, cause, requests>>

\* lines 107-112
Render ==
    /\ pc = "rows"
    /\ idx > Len(secrets)
    /\ calls' = Append(calls, "Render")
    /\ \E werr \in {Nil} \cup WriteErrors :
          /\ cause' = RenderErr(tp, werr)
          /\ ret' = RenderError(RenderErr(tp, werr))
          /\ out' = IF RenderErr(tp, werr) = Nil THEN tp.rows ELSE <<>>
    /\ pc' = "done"
    /\ UNCHANGED <<inputs, baseRepo, secrets, idx, tp, requests>>

Next == CreateClient \/ ResolveRepo \/ Fetch \/ NilRepoPanic \/ Row \/ Render

Spec == Init /\ [][Next]_vars

-----------------------------------------------------------------------------
(* Properties *)

LastCall == IF calls = <<>> THEN "" ELSE calls[Len(calls)]

Called(c) == \E k \in DOMAIN calls : calls[k] = c

\* the request has been made (or listRun returned before making it)
PastFetch == pc \in {"rows", "done"}

\* --org names an organization literally
LiteralOrg == OrgName # "" /\ OrgName # "@owner"

\* the stages before the request succeeded: a client, and a repository where
\* one is needed
Resolved ==
    /\ httpResult = Nil
    /\ LiteralOrg \/ (repoResult.err = Nil /\ repoResult.repo # NilRepo)

DefaultHost == IF ghHost = "" THEN "github.com" ELSE ghHost

\* C1: with a literal --org name the one request goes to
\* orgs/<name>/actions/secrets on the default (overridable) host, whatever
\* the ambient repository is.
C1_LiteralOrgRequest ==
    (LiteralOrg /\ httpResult = Nil /\ PastFetch) =>
        /\ requests = <<[host |-> DefaultHost, method |-> "GET",
                         path |-> "orgs/" \o OrgName \o "/actions/secrets"]>>
        /\ OrgName = "acme" => requests[1].path = "orgs/acme/actions/secrets"
        /\ ~Called("BaseRepo")

C1_Witness ==
    /\ pc = "done"
    /\ OrgName = "acme"
    /\ ghHost = ""
    /\ repoResult.repo.host = "ghe.io"
    /\ repoResult.repo.owner = "octo"
    /\ requests = <<[host |-> "github.com", method |-> "GET",
                     path |-> "orgs/acme/actions/secrets"]>>

C3_RepoRequest ==
    (OrgName = "" /\ httpResult = Nil /\ repoResult.err = Nil /\ PastFetch) =>
        /\ requests = <<[host |-> repoResult.repo.host, method |-> "GET",
                         path |-> "repos/" \o repoResult.repo.owner \o "/"
                                  \o repoResult.repo.name \o "/actions/secrets"]>>
        /\ (repoResult.repo.owner = "octo" /\ repoResult.repo.name = "cl") =>
               requests[1].path = "repos/octo/cl/actions/secrets"

C3_Witness ==
    /\ pc = "done"
    /\ OrgName = ""
    /\ ghHost = ""
    /\ requests = <<[host |-> "ghe.io", method |-> "GET",
                     path |-> "repos/octo/hello-world/actions/secrets"]>>

\* C4: after a successful fetch the table has one row per secret of the
\* payload, in the payload's order, row i carrying the name of secret i, and
\* that table is what Render is given.  An empty payload is no error: the
\* loop adds nothing, Render is called on the empty table, and listRun
\* returns what Render returns, nil when the write succeeds.
C4_RowPerSecret ==
    /\ pc = "rows" =>
          /\ Len(tp.rows) = idx - 1
          /\ \A i \in 1..Len(tp.rows) : tp.rows[i][1] = secrets[i].Name
    /\ LastCall = "Render" =>
          /\ Len(tp.rows) = Len(secrets)
          /\ \A i \in 1..Len(secrets) : tp.rows[i][1] = secrets[i].Name
          /\ ret = Nil => out = tp.rows
          /\ ret = cause
          /\ secrets = <<>> => (tp.rows = <<>> /\ out = <<>>)
    /\ (pc = "done" /\ Called("REST") /\ ret = Nil) => LastCall = "Render"

C4_Witness ==
    /\ LastCall = "Render"
    /\ ret = Nil
    /\ Len(secrets) = 2
    /\ secrets[1].Name = "QUX"
    /\ secrets[2].Name = "BAR"
    /\ Len(out) = 2
    /\ out[1][1] = "QUX"
    /\ out[2][1] = "BAR"

\* the phrase of a tag on a terminal
Phrase(v) ==
    CASE v = <<"a", "l", "l">> -> "Visible to all repositories"
      [] v = <<"p", "r", "i", "v", "a", "t", "e">> -> "Visible to private repositories"
      [] v = <<"s", "e", "l", "e", "c", "t", "e", "d">> ->
             "Visible to selected repositories"
      [] v = <<"A", "l", "l">> -> ""
      [] v = <<"x", "-", "1">> -> ""

\* the tag in upper case
Shouted(v) ==
    CASE v = <<"a", "l", "l">> -> "ALL"
      [] v = <<"p", "r", "i", "v", "a", "t", "e">> -> "PRIVATE"
      [] v = <<"s", "e", "l", "e", "c", "t", "e", "d">> -> "SELECTED"
      [] v = <<"A", "l", "l">> -> "ALL"
      [] v = <<"x", "-", "1">> -> "X-1"

\* C5: column 3 of a secret with a visibility tag is, on a terminal, the
\* phrase of the tag ("" for an unrecognized tag) and otherwise the tag in
\* upper case.
C5_VisibilityColumn ==
    \A i \in 1..Len(tp.rows) :
        secrets[i].Visibility # <<>> =>
            tp.rows[i][3] = IF isTTY THEN Phrase(secrets[i].Visibility)
                                     ELSE Shouted(secrets[i].Visibility)

C5_Witness ==
    /\ LastCall = "Render"
    /\ ~isTTY
    /\ Len(out) = 2
    /\ secrets[1].Visibility = <<"a", "l", "l">>
    /\ out[1][3] = "ALL"
    /\ secrets[2].Visibility = <<"A", "l", "l">>
    /\ out[2][3] = "ALL"

\* C6: a row has two columns when the secret's visibility is empty and three
\* when it is not, on a terminal or not.
C6_ColumnCount ==
    \A i \in 1..Len(tp.rows) :
        Len(tp.rows[i]) = IF secrets[i].Visibility = <<>> THEN 2 ELSE 3

C6_Witness ==
    /\ LastCall = "Render"
    /\ Len(out) = 2
    /\ secrets[1].Visibility = <<>>
    /\ Len(out[1]) = 2
    /\ secrets[2].Visibility # <<>>
    /\ Len(out[2]) = 3

\* C7 as claimed: the error listRun returns is the collaborator's error
\* itself.
C7_Unmodified == pc = "done" => ret = cause

\* the message listRun puts in front of the error of a stage
StagePrefix(call) ==
    CASE call = "HttpClient" -> "could not create http client: "
      [] call = "BaseRepo" -> "could not determine base repo: "
      [] call = "REST" -> "failed to get secrets: "

\* C7, amended: an error of client creation, scope resolution or fetch is
\* returned wrapped: the message is the stage's prefix followed by the
\* collaborator's message, and unwrapping gives the collaborator's error.
\* Only a render error is returned as it is.  Without an error nil is
\* returned.
C7_WrappedExceptRender ==
    pc = "done" =>
        /\ cause = Nil => ret = Nil
        /\ (cause # Nil /\ LastCall = "Render") => ret = cause
        /\ (cause # Nil /\ LastCall # "Render") =>
              /\ ret # cause
              /\ Tail(ret) = cause
              /\ Head(ret) = StagePrefix(LastCall) \o Head(cause)

C7_Witness ==
    /\ pc = "done"
    /\ cause = <<"HTTP 404">>
    /\ ret = <<"failed to get secrets: HTTP 404", "HTTP 404">>

Rank(call) ==
    CASE call = "HttpClient" -> 1
      [] call = "BaseRepo" -> 2
      [] call = "REST" -> 3
      [] call \in {"AddField", "EndRow"} -> 4
      [] call = "Render" -> 5

\* C8: the collaborators are called in the order client, accessor, request,
\* rows, render, and listRun stops at the first failure: after a client
\* failure neither the accessor is called nor a request sent, after a
\* resolution failure no request is sent, after a fetch failure no row is
\* added and Render is not called.
C8_OrderAndHalt ==
    /\ \A i, j \in DOMAIN calls : i < j => Rank(calls[i]) <= Rank(calls[j])
    /\ calls # <<>> => calls[1] = "HttpClient"
    /\ Called("Render") => (LastCall = "Render" /\ pc = "done")
    /\ (pc # "client" /\ httpResult # Nil) =>
          (pc = "done" /\ calls = <<"HttpClient">> /\ requests = <<>>)
    /\ (Called("BaseRepo") /\ repoResult.err # Nil) =>
          (pc = "done" /\ LastCall = "BaseRepo" /\ requests = <<>>)
    /\ (Called("REST") /\ cause # Nil /\ ~Called("Render")) =>
          /\ pc = "done"
          /\ LastCall = "REST"
          /\ tp = NewTablePrinter
          /\ out = <<>>
    /\ (ret # Nil /\ LastCall # "Render") => (tp = NewTablePrinter /\ out = <<>>)
    /\ pc = "panic" =>
          (LastCall = "BaseRepo" /\ requests = <<>> /\ tp = NewTablePrinter /\ out = <<>>)

C8_Witness ==
    /\ pc = "done"
    /\ calls = <<"HttpClient", "BaseRepo", "REST">>
    /\ cause = <<"HTTP 404">>
    /\ out = <<>>

\* the paths of the organization collection and of the repository collection
OrgPaths ==
    { "orgs/" \o o \o "/actions/secrets" : o \in OrgNames \cup {r.owner : r \in Repos} }

RepoPaths ==
    { "repos/" \o r.owner \o "/" \o r.name \o "/actions/secrets" : r \in Repos }

\* C9: at most one request is issued, to the organization path or to the
\* repository path, exactly one when client creation and
\* scope resolution succeed, and a failed request is not repeated.
C9_OneRequest ==
    /\ Len(requests) <= 1
    /\ Cardinality({k \in DOMAIN calls : calls[k] = "REST"}) = Len(requests)
    /\ (PastFetch /\ Resolved) => Len(requests) = 1
    /\ (PastFetch /\ ~Resolved) => requests = <<>>
    /\ \A k \in DOMAIN requests :
          /\ requests[k].method = "GET"
          /\ (requests[k].path \in OrgPaths) # (requests[k].path \in RepoPaths)

C9_Witness ==
    /\ pc = "done"
    /\ LastCall = "REST"
    /\ cause = <<"invalid character">>
    /\ Len(requests) = 1

ResolutionErrors == { <<"could not determine base repo: " \o e[1], e[1]>> : e \in RepoErrors }

\* C10: the accessor is called exactly when --org is empty or "@owner" (and
\* a client was created); listRun returns a resolution error exactly when
\* the accessor is called and fails; with a literal name a failing accessor
\* does not make listRun fail.
C10_AccessorWhenNeeded ==
    /\ pc \in {"fetch", "rows", "done", "panic"} =>
          (Called("BaseRepo") <=> (httpResult = Nil /\ ~LiteralOrg))
    /\ pc \in {"client", "resolve"} => ~Called("BaseRepo")
    /\ pc = "done" =>
          (ret \in ResolutionErrors <=> (Called("BaseRepo") /\ repoResult.err # Nil))
    /\ (LiteralOrg /\ repoResult.err # Nil /\ ret # Nil) =>
          (cause # repoResult.err /\ LastCall # "BaseRepo")

C10_Witness ==
    /\ pc = "done"
    /\ OrgName = "acme"
    /\ repoResult.err # Nil
    /\ ret = Nil
    /\ Len(out) = 2

====
